---- MODULE Spec2Model ----
(***************************************************************************)
(* Model of ProxyChecker (src/main.py): check_proxy, check_anonymity,      *)
(* get_country, check_proxies_from_file, check_proxy_list (thread pool +   *)
(* as_completed loop) and save_results.                                    *)
(*                                                                         *)
(* Strings are sequences of one-character strings.  A descriptor is a      *)
(* record [isStr, chars]: isStr = FALSE stands for a non-string argument   *)
(* (None), on which proxy.strip() raises AttributeError.                   *)
(***************************************************************************)
EXTENDS Integers, Sequences, FiniteSets, TLC

(* ----------------------------- bounds --------------------------------- *)
\* longest descriptor string enumerated for a single check_proxy call
MaxLen == 3
\* longest list handed to check_proxy_list on a fresh checker
MaxBatch == 3
\* longest list handed to check_proxy_list where termination is checked
MaxFairBatch == 2
\* longest list handed to check_proxy_list when runs are repeated
MaxRepeatBatch == 1
\* most lines in an input file
MaxFileLines == 2
\* pool width used in the model (ProxyChecker.max_workers)
max_workers == 2

(* ----------------------------- strings -------------------------------- *)
Alphabet == {"a", ":", " "}

Strings(n) == UNION {[1..k -> Alphabet] : k \in 0..n}

Str(s) == [isStr |-> TRUE, chars |-> s]

NoneValue == [isStr |-> FALSE, chars |-> <<>>]

\* str.strip(): drop leading and trailing whitespace
RECURSIVE LStrip(_)
LStrip(s) == IF s # <<>> /\ Head(s) = " " THEN LStrip(Tail(s)) ELSE s

RECURSIVE RStrip(_)
RStrip(s) ==
  IF s # <<>> /\ s[Len(s)] = " " THEN RStrip(SubSeq(s, 1, Len(s) - 1)) ELSE s

Strip(s) == RStrip(LStrip(s))

\* str.split(':'): the fields between the separators, empty fields kept
RECURSIVE SplitAcc(_, _, _)
SplitAcc(s, cur, acc) ==
  IF s = <<>> THEN Append(acc, cur)
  ELSE IF Head(s) = ":" THEN SplitAcc(Tail(s), <<>>, Append(acc, cur))
  ELSE SplitAcc(Tail(s), Append(cur, Head(s)), acc)

Split(s) == SplitAcc(s, <<>>, <<>>)

(* --------------------------- exceptions ------------------------------- *)
\* the classes each raised exception is an instance of
Bases(e) ==
  CASE e = "ProxyError"      -> {"ProxyError", "ConnectionError", "RequestException", "Exception"}
    [] e = "ConnectTimeout"  -> {"ConnectTimeout", "ConnectionError", "Timeout", "RequestException", "Exception"}
    [] e = "ReadTimeout"     -> {"ReadTimeout", "Timeout", "RequestException", "Exception"}
    [] e = "SSLError"        -> {"SSLError", "ConnectionError", "RequestException", "Exception"}
    [] e = "ConnectionError" -> {"ConnectionError", "RequestException", "Exception"}
    [] e = "InvalidURL"      -> {"InvalidURL", "RequestException", "Exception"}
    [] OTHER                 -> {e, "Exception"}

IsInstance(e, cls) == cls \in Bases(e)

\* str(e)
ExcText(e) == "str(" \o e \o ")"

RequestExceptions ==
  {"ProxyError", "ConnectTimeout", "ReadTimeout", "SSLError", "ConnectionError", "InvalidURL"}

(* ----------------------------- records -------------------------------- *)
Absent == "<absent>"

Result(proxy, status, error, rt, anon, country) ==
  [proxy |-> proxy, status |-> status, error |-> error,
   response_time |-> rt, anonymity |-> anon, country |-> country]

NoResult == Result(NoneValue, Absent, Absent, Absent, Absent, Absent)

\* outcome of requests.get(self.test_urls[0], ...)
FirstRaise(e) == [raises |-> e, status_code |-> 0, text |-> Absent]
FirstResponse(code, text) == [raises |-> "none", status_code |-> code, text |-> text]
NoFirst == [raises |-> Absent, status_code |-> 0, text |-> Absent]

\* outcome of requests.get('http://httpbin.org/headers', ...): the call raises,
\* or the body is not JSON, a JSON array, or a JSON object whose 'headers'
\* member is missing, null or an object with the given keys
SecondRaise(e) == [raises |-> e, body |-> Absent, headers |-> {}]
SecondBody(kind, hs) == [raises |-> "none", body |-> kind, headers |-> hs]
NoSecond == [raises |-> Absent, body |-> Absent, headers |-> {}]

HeaderNames ==
  {"X-Forwarded-For", "X-Real-Ip", "Via", "X-Forwarded-By", "Host", "x-forwarded-for"}

StatusCodes == {200, 404, 503}

Texts == {"origin", "Country"}

FirstOutcomes ==
  {FirstRaise(e) : e \in RequestExceptions}
    \cup {FirstResponse(c, t) : c \in StatusCodes, t \in Texts}

SecondOutcomes ==
  {SecondRaise(e) : e \in {"ProxyError", "ReadTimeout"}}
    \cup {SecondBody(k, {}) : k \in {"notjson", "array", "nokey", "null"}}
    \cup {SecondBody("object", hs) : hs \in SUBSET HeaderNames}

Url0 == "http://httpbin.org/ip"
HeadersUrl == "http://httpbin.org/headers"

(* --------------------------- check_proxy ------------------------------ *)
\* f'http://{ip}:{port}'
ProxyUrl(ip, port) == <<"http://">> \o ip \o <<":">> \o port

\* auth is (username, password) only for exactly four fields
Auth(parts) == IF Len(parts) = 4 THEN <<parts[3], parts[4]>> ELSE <<>>

RequestRec(url, parts) ==
  [url |-> url, proxy |-> ProxyUrl(parts[1], parts[2]), auth |-> Auth(parts)]

\* the frame of one check_proxy call: pc is the next step, calls the
\* outbound requests issued so far, escaped an exception leaving the call
NewProbe(d) ==
  [proxy |-> d, pc |-> "parse", calls |-> <<>>, first |-> NoFirst,
   second |-> NoSecond, result |-> NoResult, escaped |-> "none"]

IdleProbe == [NewProbe(NoneValue) EXCEPT !.pc = "none"]

Return(p, r) == [p EXCEPT !.pc = "returned", !.result = r]

\* variant: the outer handler catches requests' exceptions only
OuterHandler_RequestsOnly(p, e) ==
  IF IsInstance(e, "RequestException")
  THEN Return(p, Result(p.proxy, "error", ExcText(e), Absent, Absent, Absent))
  ELSE [p EXCEPT !.pc = "raised", !.escaped = e]

\* variant: the outer handler re-raises
OuterHandler_Reraise(p, e) == [p EXCEPT !.pc = "raised", !.escaped = e]

\* except Exception as e (line 99): whatever reaches the outer handler
OuterHandler(p, e) ==
  IF IsInstance(e, "Exception")
  THEN Return(p, Result(p.proxy, "error", ExcText(e), Absent, Absent, Absent))
  ELSE [p EXCEPT !.pc = "raised", !.escaped = e]

\* variant: a short descriptor raises instead of returning 'invalid'
ParseStep_Raises(p) ==
  IF ~p.proxy.isStr THEN OuterHandler(p, "AttributeError")
  ELSE LET proxy_parts == Split(Strip(p.proxy.chars)) IN
       IF Len(proxy_parts) < 2
       THEN OuterHandler(p, "ValueError")
       ELSE [p EXCEPT !.pc = "request1"]

\* lines 40-57
ParseStep(p) ==
  IF ~p.proxy.isStr THEN OuterHandler(p, "AttributeError")
  ELSE LET proxy_parts == Split(Strip(p.proxy.chars)) IN
       IF Len(proxy_parts) < 2
       THEN Return(p, Result(p.proxy, "invalid", "Invalid format", Absent, Absent, Absent))
       ELSE [p EXCEPT !.pc = "request1"]

\* variant: the ConnectionError clause comes first
InnerHandler_ConnectionFirst(p, e) ==
  IF IsInstance(e, "ConnectionError")
  THEN Return(p, Result(p.proxy, "failed", "Connection error", Absent, Absent, Absent))
  ELSE IF IsInstance(e, "ProxyError")
  THEN Return(p, Result(p.proxy, "failed", "Proxy connection failed", Absent, Absent, Absent))
  ELSE IF IsInstance(e, "Timeout")
  THEN Return(p, Result(p.proxy, "failed", "Timeout", Absent, Absent, Absent))
  ELSE OuterHandler(p, e)

\* lines 92-97, then 99
InnerHandler(p, e) ==
  IF IsInstance(e, "ProxyError")
  THEN Return(p, Result(p.proxy, "failed", "Proxy connection failed", Absent, Absent, Absent))
  ELSE IF IsInstance(e, "Timeout")
  THEN Return(p, Result(p.proxy, "failed", "Timeout", Absent, Absent, Absent))
  ELSE IF IsInstance(e, "ConnectionError")
  THEN Return(p, Result(p.proxy, "failed", "Connection error", Absent, Absent, Absent))
  ELSE OuterHandler(p, e)

\* variant: every response, whatever its status, is taken as a success
Request1Step_AnyStatus(p, o) ==
  LET parts == Split(Strip(p.proxy.chars))
      q == [p EXCEPT !.calls = Append(@, RequestRec(Url0, parts)), !.first = o]
  IN IF o.raises # "none" THEN InnerHandler(q, o.raises)
     ELSE [q EXCEPT !.pc = "request2"]

\* lines 63-90: the first GET is issued and its outcome o observed
Request1Step(p, o) ==
  LET parts == Split(Strip(p.proxy.chars))
      q == [p EXCEPT !.calls = Append(@, RequestRec(Url0, parts)), !.first = o]
  IN IF o.raises # "none" THEN InnerHandler(q, o.raises)
     ELSE IF o.status_code = 200 THEN [q EXCEPT !.pc = "request2"]
     ELSE Return(q, Result(p.proxy, "failed", "HTTP " \o ToString(o.status_code),
                           "measured", Absent, Absent))

\* variant: the Via / X-Forwarded-By test comes first
ClassifyHeaders_ViaFirst(o) ==
  IF o.body \in {"notjson", "array", "null"} THEN "unknown"
  ELSE LET headers == IF o.body = "nokey" THEN {} ELSE o.headers IN
       IF "Via" \in headers \/ "X-Forwarded-By" \in headers THEN "anonymous"
       ELSE IF "X-Forwarded-For" \in headers \/ "X-Real-Ip" \in headers THEN "transparent"
       ELSE "elite"

\* lines 112-120 on a response that arrived
ClassifyHeaders(o) ==
  IF o.body \in {"notjson", "array", "null"} THEN "unknown"
  ELSE LET headers == IF o.body = "nokey" THEN {} ELSE o.headers IN
       IF "X-Forwarded-For" \in headers \/ "X-Real-Ip" \in headers THEN "transparent"
       ELSE IF "Via" \in headers \/ "X-Forwarded-By" \in headers THEN "anonymous"
       ELSE "elite"

\* check_anonymity: every exception is swallowed by the bare except
check_anonymity(o) == IF o.raises # "none" THEN "unknown" ELSE ClassifyHeaders(o)

Lower(t) == IF t = "Country" THEN "country" ELSE t

get_country(response_text) ==
  IF Lower(response_text) = "country" THEN "Available" ELSE "Unknown"

\* lines 75-83: the second GET is issued inside check_anonymity
Request2Step(p, o) ==
  LET parts == Split(Strip(p.proxy.chars))
      q == [p EXCEPT !.calls = Append(@, RequestRec(HeadersUrl, parts)), !.second = o]
  IN Return(q, Result(p.proxy, "working", Absent, "measured",
                      check_anonymity(o), get_country(p.first.text)))

(* ------------------------- batch summary ------------------------------ *)
\* self.results: the list [] set by __init__, or the dict of one run
MakeResults(kind, n, w, f, rate, wp, fp) ==
  [kind |-> kind, total_tested |-> n, working |-> w, failed |-> f,
   success_rate |-> rate, working_proxies |-> wp, failed_proxies |-> fp]

InitialResults == MakeResults("list", 0, 0, 0, 0, <<>>, <<>>)

\* bool(self.results): [] is false, a dict with six keys is true
Truthy(r) == r.kind = "dict"

\* a / b on numbers: an exception when b is zero
Quotient(ok, val) == [ok |-> ok, val |-> val]

\* round(a / b, 0) with ties to even, on exact rationals
RoundDiv(a, b) ==
  LET q == a \div b
      r == a % b
  IN IF 2 * r < b THEN q
     ELSE IF 2 * r > b THEN q + 1
     ELSE IF q % 2 = 0 THEN q ELSE q + 1

\* variant: the rate is computed without the empty-list guard
SuccessRate_NoGuard(w, n) ==
  IF n # 0 THEN Quotient(TRUE, RoundDiv(w * 10000, n)) ELSE Quotient(FALSE, 0)

\* line 194, in hundredths of a percent: round(w / n * 100, 2) if proxies else 0
SuccessRate(w, n) ==
  IF n # 0 THEN Quotient(TRUE, RoundDiv(w * 10000, n)) ELSE Quotient(TRUE, 0)

\* line 187, in tenths of a percent: (i / len(proxies)) * 100
Progress(i, n) ==
  IF n = 0 THEN Quotient(FALSE, 0) ELSE Quotient(TRUE, RoundDiv(i * 1000, n))

\* lines 190-197
BuildSummary(ps, wp, fp, rate) ==
  MakeResults("dict", Len(ps), Len(wp), Len(fp), rate, wp, fp)

\* variant: a run adds its entries to those of the previous summary
StoreResults_Merge(old, new) ==
  MakeResults("dict", old.total_tested + new.total_tested, old.working + new.working,
              old.failed + new.failed, new.success_rate,
              old.working_proxies \o new.working_proxies,
              old.failed_proxies \o new.failed_proxies)

\* line 199: self.results = results_summary
StoreResults(old, new) == new

(* ----------------------------- files ---------------------------------- *)
\* what the last operation wrote and printed
Output(written, format, data, msg) ==
  [written |-> written, format |-> format, data |-> data, msg |-> msg]

NoOutput == Output(FALSE, Absent, <<>>, Absent)

Formats == {"txt", "json", "csv", "xml"}

\* lines 215-248: the rows written for each format
Render(r, format) ==
  CASE format = "txt" ->
         <<"Working Proxies:">> \o [k \in 1..Len(r.working_proxies) |-> r.working_proxies[k].proxy]
    [] format = "json" -> <<r>>
    [] format = "csv" ->
         <<"Proxy,Status,Response Time,Anonymity,Error">>
           \o [k \in 1..Len(r.working_proxies) |->
                 LET x == r.working_proxies[k] IN
                 <<x.proxy, x.status, x.response_time, x.anonymity, "">>]
           \o [k \in 1..Len(r.failed_proxies) |->
                 LET x == r.failed_proxies[k] IN
                 <<x.proxy, x.status, "", "", x.error>>]
    [] OTHER -> <<>>

\* an input file: missing, unreadable, or its lines
File(state, lines) == [state |-> state, lines |-> lines]

FileLines == {<<>>, <<" ">>, <<"#", "a">>, <<"a">>, <<"a", ":", "a">>, <<" ", "a", ":", "a", " ">>}

Files ==
  {File("missing", <<>>), File("unreadable", <<>>)}
    \cup {File("ok", ls) : ls \in UNION {[1..k -> FileLines] : k \in 0..MaxFileLines}}

\* line 146: [line.strip() for line in f if line.strip() and not line.startswith('#')]
RECURSIVE ReadProxies(_)
ReadProxies(lines) ==
  IF lines = <<>> THEN <<>>
  ELSE LET line == Head(lines) IN
       IF Strip(line) # <<>> /\ ~(line # <<>> /\ Head(line) = "#")
       THEN <<Str(Strip(line))>> \o ReadProxies(Tail(lines))
       ELSE ReadProxies(Tail(lines))

(* ------------------------------ state --------------------------------- *)
VARIABLES
  results,          \* self.results
  mainpc,           \* where the calling thread is
  cur,              \* the frame of a check_proxy call made by the caller
  proxies,          \* argument of the running check_proxy_list
  futs,             \* the futures submitted so far, in submission order
  working_proxies,  \* local list of check_proxy_list
  failed_proxies,   \* local list of check_proxy_list
  completionOrder,  \* indices of the futures in the order they finished
  snapshot,         \* futures already finished when as_completed was entered
  yieldQueue,       \* futures as_completed will yield next, in order
  collected,        \* indices of the futures the loop has consumed, in order
  progress,         \* last progress value printed
  returned,         \* summary returned by the last completed check_proxy_list
  raised,           \* exception that left the last operation
  out               \* file written and message printed by the last operation

vars == <<results, mainpc, cur, proxies, futs, working_proxies, failed_proxies,
          completionOrder, snapshot, yieldQueue, collected, progress, returned,
          raised, out>>

batchVars == <<proxies, futs, working_proxies, failed_proxies, completionOrder,
               snapshot, yieldQueue, collected, progress>>

\* descriptors and outcomes used when a batch is run
BatchDescriptors == {Str(<<"a">>), Str(<<"a", ":", "a">>)}

BatchFirstOutcomes ==
  {FirstResponse(200, "origin"), FirstRaise("ReadTimeout"), FirstRaise("InvalidURL")}

BatchSecondOutcomes == {SecondRaise("ReadTimeout"), SecondBody("object", {"Host"})}

BatchInputs(n) == UNION {[1..k -> BatchDescriptors] : k \in 0..n}

\* descriptors enumerated for a single call
Descriptors == {Str(s) : s \in Strings(MaxLen)} \cup {NoneValue}

Init ==
  /\ results = InitialResults
  /\ mainpc = "idle"
  /\ cur = IdleProbe
  /\ proxies = <<>>
  /\ futs = <<>>
  /\ working_proxies = <<>>
  /\ failed_proxies = <<>>
  /\ completionOrder = <<>>
  /\ snapshot = {}
  /\ yieldQueue = <<>>
  /\ collected = <<>>
  /\ progress = 0
  /\ returned = InitialResults
  /\ raised = "none"
  /\ out = NoOutput

(* ----------------- check_proxy called by the caller -------------------- *)
CallCheckProxy(D) ==
  /\ mainpc = "idle"
  /\ \E d \in D : cur' = NewProbe(d)
  /\ mainpc' = "check_proxy"
  /\ raised' = "none"
  /\ out' = NoOutput
  /\ UNCHANGED <<results, returned, batchVars>>

DirectParse ==
  /\ mainpc = "check_proxy"
  /\ cur.pc = "parse"
  /\ cur' = ParseStep(cur)
  /\ UNCHANGED <<results, mainpc, returned, raised, out, batchVars>>

DirectRequest1(F) ==
  /\ mainpc = "check_proxy"
  /\ cur.pc = "request1"
  /\ \E o \in F : cur' = Request1Step(cur, o)
  /\ UNCHANGED <<results, mainpc, returned, raised, out, batchVars>>

DirectRequest2(S) ==
  /\ mainpc = "check_proxy"
  /\ cur.pc = "request2"
  /\ \E o \in S : cur' = Request2Step(cur, o)
  /\ UNCHANGED <<results, mainpc, returned, raised, out, batchVars>>

\* the call is over: its frame is dropped
DirectReturn ==
  /\ mainpc = "check_proxy"
  /\ cur.pc \in {"returned", "raised"}
  /\ mainpc' = "idle"
  /\ raised' = cur.escaped
  /\ cur' = IdleProbe
  /\ UNCHANGED <<results, returned, out, batchVars>>

(* -------------------------- check_proxy_list -------------------------- *)
Future(state, probe) == [state |-> state, probe |-> probe]

Finished == {i \in 1..Len(futs) : futs[i].state = "finished"}

Running == {i \in 1..Len(futs) : futs[i].state = "running"}

\* lines 167-171: the locals of a fresh run
StartRun(ps) ==
  /\ proxies' = ps
  /\ futs' = <<>>
  /\ working_proxies' = <<>>
  /\ failed_proxies' = <<>>
  /\ completionOrder' = <<>>
  /\ snapshot' = {}
  /\ yieldQueue' = <<>>
  /\ collected' = <<>>
  /\ progress' = 0
  /\ mainpc' = "submit"
  /\ raised' = "none"
  /\ out' = NoOutput

CallCheckProxyList(n) ==
  /\ mainpc = "idle"
  /\ \E ps \in BatchInputs(n) : StartRun(ps)
  /\ UNCHANGED <<results, cur, returned>>

\* lines 144-155
CallCheckProxiesFromFile(n) ==
  /\ mainpc = "idle"
  /\ \E f \in Files :
       IF f.state = "ok" /\ Len(ReadProxies(f.lines)) <= n
       THEN /\ StartRun(ReadProxies(f.lines))
            /\ UNCHANGED <<results, cur, returned>>
       ELSE /\ f.state # "ok"
            /\ out' = Output(FALSE, Absent, <<>>,
                             IF f.state = "missing" THEN "not found" ELSE "Error reading file")
            /\ raised' = "none"
            /\ UNCHANGED <<results, mainpc, cur, returned, batchVars>>

\* line 174: executor.submit for the next descriptor
Submit ==
  /\ mainpc = "submit"
  /\ Len(futs) < Len(proxies)
  /\ futs' = Append(futs, Future("pending", NewProbe(proxies[Len(futs) + 1])))
  /\ UNCHANGED <<results, mainpc, cur, returned, raised, out, proxies,
                 working_proxies, failed_proxies, completionOrder, snapshot,
                 yieldQueue, collected, progress>>

\* a step of check_proxy in a pool thread; when the call is over the future
\* is finished and, once as_completed waits on it, queued for the loop
WorkerAdvance(i, p) ==
  LET done == p.pc \in {"returned", "raised"} IN
  /\ futs' = [futs EXCEPT ![i] = Future(IF done THEN "finished" ELSE "running", p)]
  /\ completionOrder' = IF done THEN Append(completionOrder, i) ELSE completionOrder
  /\ yieldQueue' = IF done /\ mainpc = "collect" THEN Append(yieldQueue, i) ELSE yieldQueue
  /\ UNCHANGED <<results, mainpc, cur, returned, raised, out, proxies,
                 working_proxies, failed_proxies, snapshot, collected, progress>>

\* a pool thread takes the oldest queued work item and runs check_proxy up
\* to its first request (lines 38-60)
WorkerStart(i) ==
  /\ i \in 1..Len(futs)
  /\ futs[i].state = "pending"
  /\ \A j \in 1..(i - 1) : futs[j].state # "pending"
  /\ Cardinality(Running) < max_workers
  /\ WorkerAdvance(i, ParseStep(futs[i].probe))

WorkerRequest1(i) ==
  /\ i \in 1..Len(futs)
  /\ futs[i].state = "running"
  /\ futs[i].probe.pc = "request1"
  /\ \E o \in BatchFirstOutcomes : WorkerAdvance(i, Request1Step(futs[i].probe, o))

WorkerRequest2(i) ==
  /\ i \in 1..Len(futs)
  /\ futs[i].state = "running"
  /\ futs[i].probe.pc = "request2"
  /\ \E o \in BatchSecondOutcomes : WorkerAdvance(i, Request2Step(futs[i].probe, o))

\* the order in which as_completed yields the futures that had already
\* finished when it was called: it iterates over a set of them
AlreadyFinishedOrders(S) ==
  {q \in [1..Cardinality(S) -> S] : \A i, j \in 1..Cardinality(S) : q[i] = q[j] => i = j}

\* line 176: as_completed(future_to_proxy) is entered
EnterAsCompleted ==
  /\ mainpc = "submit"
  /\ Len(futs) = Len(proxies)
  /\ snapshot' = Finished
  /\ \E q \in AlreadyFinishedOrders(Finished) : yieldQueue' = q
  /\ mainpc' = "collect"
  /\ UNCHANGED <<results, cur, returned, raised, out, proxies, futs,
                 working_proxies, failed_proxies, completionOrder, collected, progress>>

\* variant: only 'failed' results go to the failed list
Partition_FailedOnly(wp, fp, result) ==
  IF result.status = "working"
  THEN [w |-> Append(wp, result), f |-> fp]
  ELSE IF result.status = "failed"
  THEN [w |-> wp, f |-> Append(fp, result)]
  ELSE [w |-> wp, f |-> fp]

\* variant: results are inserted at the front of the lists
Partition_Prepend(wp, fp, result) ==
  IF result.status = "working"
  THEN [w |-> <<result>> \o wp, f |-> fp]
  ELSE [w |-> wp, f |-> <<result>> \o fp]

\* lines 179-184
Partition(wp, fp, result) ==
  IF result.status = "working"
  THEN [w |-> Append(wp, result), f |-> fp]
  ELSE [w |-> wp, f |-> Append(fp, result)]

\* lines 176-188: one iteration of the loop
Collect ==
  /\ mainpc = "collect"
  /\ yieldQueue # <<>>
  /\ LET f == Head(yieldQueue)
         p == futs[f].probe
         i == Len(collected) + 1
         part == Partition(working_proxies, failed_proxies, p.result)
         prog == Progress(i, Len(proxies))
     IN /\ yieldQueue' = Tail(yieldQueue)
        /\ collected' = Append(collected, f)
        /\ IF p.pc = "raised"
           THEN /\ raised' = p.escaped
                /\ mainpc' = "aborted"
                /\ UNCHANGED <<working_proxies, failed_proxies, progress>>
           ELSE /\ working_proxies' = part.w
                /\ failed_proxies' = part.f
                /\ IF prog.ok
                   THEN /\ progress' = prog.val
                        /\ UNCHANGED <<mainpc, raised>>
                   ELSE /\ raised' = "ZeroDivisionError"
                        /\ mainpc' = "aborted"
                        /\ UNCHANGED progress
  /\ UNCHANGED <<results, cur, returned, out, proxies, futs, completionOrder, snapshot>>

\* the loop is exhausted (or was left by an exception) and the with-block
\* waits for the pool; lines 190-200 then build, store and return the summary
ExitPool ==
  /\ \/ mainpc = "aborted"
     \/ mainpc = "collect" /\ Len(collected) = Len(proxies)
  /\ Finished = 1..Len(futs)
  /\ LET rate == SuccessRate(Len(working_proxies), Len(proxies))
         results_summary == BuildSummary(proxies, working_proxies, failed_proxies, rate.val)
     IN IF mainpc = "aborted" \/ ~rate.ok
        THEN /\ mainpc' = "idle"
             /\ raised' = IF mainpc = "aborted" THEN raised ELSE "ZeroDivisionError"
             /\ UNCHANGED <<results, returned>>
        ELSE /\ mainpc' = "built"
             /\ results' = StoreResults(results, results_summary)
             /\ returned' = results_summary
             /\ UNCHANGED raised
  /\ UNCHANGED <<cur, out, batchVars>>

\* the caller has the summary; the locals of the run are gone
ReturnSummary ==
  /\ mainpc = "built"
  /\ mainpc' = "idle"
  /\ proxies' = <<>>
  /\ futs' = <<>>
  /\ working_proxies' = <<>>
  /\ failed_proxies' = <<>>
  /\ completionOrder' = <<>>
  /\ snapshot' = {}
  /\ yieldQueue' = <<>>
  /\ collected' = <<>>
  /\ progress' = 0
  /\ UNCHANGED <<results, cur, returned, raised, out>>

(* ----------------------------- save_results --------------------------- *)
\* lines 210-253; writable is whether open(filename, 'w') succeeds
SaveResults ==
  /\ mainpc = "idle"
  /\ \E format \in Formats, writable \in BOOLEAN :
       out' = IF ~Truthy(results) THEN Output(FALSE, Absent, <<>>, "No results to save.")
              ELSE IF format \notin {"txt", "json", "csv"}
              THEN Output(FALSE, format, <<>>, "Results saved")
              ELSE IF writable
              THEN Output(TRUE, format, Render(results, format), "Results saved")
              ELSE Output(FALSE, format, <<>>, "Error saving results")
  /\ raised' = "none"
  /\ UNCHANGED <<results, mainpc, cur, returned, batchVars>>

(* --------------------------- specifications --------------------------- *)
Next ==
  \/ CallCheckProxy(BatchDescriptors \cup {NoneValue})
  \/ DirectParse
  \/ DirectRequest1(BatchFirstOutcomes)
  \/ DirectRequest2(BatchSecondOutcomes)
  \/ DirectReturn
  \/ CallCheckProxyList(MaxRepeatBatch)
  \/ CallCheckProxiesFromFile(MaxRepeatBatch)
  \/ Submit
  \/ \E i \in 1..Len(futs) : WorkerStart(i)
  \/ \E i \in 1..Len(futs) : WorkerRequest1(i)
  \/ \E i \in 1..Len(futs) : WorkerRequest2(i)
  \/ EnterAsCompleted
  \/ Collect
  \/ ExitPool
  \/ ReturnSummary
  \/ SaveResults

Spec == Init /\ [][Next]_vars

\* one run of check_proxy_list on a freshly constructed checker
Fresh == results = InitialResults /\ raised = "none"

\* the steps of a run once it has been started
RunStep ==
  \/ Submit
  \/ \E i \in 1..Len(futs) : WorkerStart(i)
  \/ \E i \in 1..Len(futs) : WorkerRequest1(i)
  \/ \E i \in 1..Len(futs) : WorkerRequest2(i)
  \/ EnterAsCompleted
  \/ Collect
  \/ ExitPool

RunNext ==
  \/ Fresh /\ CallCheckProxyList(MaxBatch)
  \/ Fresh /\ CallCheckProxiesFromFile(MaxBatch)
  \/ RunStep
  \/ ReturnSummary

RunSpec == Init /\ [][RunNext]_vars

FairNext ==
  \/ Fresh /\ CallCheckProxyList(MaxFairBatch)
  \/ Fresh /\ CallCheckProxiesFromFile(MaxFairBatch)
  \/ RunStep
  \/ ReturnSummary

\* some thread that can take a step of the run eventually does: requests
\* are bounded by their timeout, and the pool threads and the caller keep
\* being scheduled
FairRunSpec == Init /\ [][FairNext]_vars /\ WF_vars(RunStep)

\* a single check_proxy call at a time, over every enumerated descriptor and
\* every outcome of the two requests
ProbeNext ==
  \/ CallCheckProxy(Descriptors)
  \/ DirectParse
  \/ DirectRequest1(FirstOutcomes)
  \/ DirectRequest2(SecondOutcomes)
  \/ DirectReturn

ProbeSpec == Init /\ [][ProbeNext]_vars

(* ------------------------------ properties ---------------------------- *)
Statuses == {"working", "failed", "invalid", "error"}

\* a check_proxy call of the caller has returned
Returned == mainpc = "check_proxy" /\ cur.pc = "returned"

\* number of colon-separated fields of a string
FieldCount(s) == Cardinality({k \in 1..Len(s) : s[k] = ":"}) + 1

FirstIssued(p) == p.first # NoFirst

First200(p) == p.first.raises = "none" /\ p.first.status_code = 200

\* the summary of the run has been built and stored
Built == mainpc = "built"

IsWorking(r) == r.status = "working"

IsNotWorking(r) == r.status # "working"

\* the results of the futures taken in the order given by a sequence of indices
ResultsIn(order) == [k \in 1..Len(order) |-> futs[order[k]].probe.result]

\* position of future i in the completion order
CompletionRank(i) == CHOOSE k \in 1..Len(completionOrder) : completionOrder[k] = i

\* C2: check_proxy never raises; whenever it has returned, the result
\* carries the descriptor it was called with and a status among working,
\* failed, invalid and error.
C2_NeverRaises ==
  /\ cur.pc # "raised"
  /\ raised = "none"
  /\ Returned => /\ cur.result.proxy = cur.proxy
                 /\ cur.result.status \in Statuses

C2_Witness ==
  /\ Returned
  /\ ~cur.proxy.isStr
  /\ cur.result.status = "error"

\* C3: a descriptor string with fewer than two colon-separated fields never
\* reaches a request, and the call returns status invalid with no outbound
\* request issued.
C3_InvalidBeforeRequest ==
  (mainpc = "check_proxy" /\ cur.proxy.isStr /\ FieldCount(cur.proxy.chars) < 2)
    => /\ cur.pc \in {"parse", "returned"}
       /\ cur.calls = <<>>
       /\ cur.pc = "returned" => cur.result.status = "invalid"

C3_Witness ==
  /\ Returned
  /\ cur.proxy = Str(<<" ", "a", " ">>)
  /\ cur.result.status = "invalid"
  /\ cur.calls = <<>>

\* C6: for a descriptor with at least two fields the returned status is
\* fixed by the outcome of the first request: 200 gives working, another
\* status failed with 'HTTP <code>', a proxy error, a timeout or a connection
\* error failed with its own message, any other exception error with the
\* exception text; the first request is issued exactly once.
C6_FirstRequestDecides ==
  (Returned /\ cur.proxy.isStr /\ FieldCount(cur.proxy.chars) >= 2) =>
    LET o == cur.first
        r == cur.result
    IN /\ FirstIssued(cur)
       /\ Cardinality({k \in 1..Len(cur.calls) : cur.calls[k].url = Url0}) = 1
       /\ (o.raises = "none" /\ o.status_code = 200) => r.status = "working"
       /\ (o.raises = "none" /\ o.status_code # 200) =>
            r.status = "failed" /\ r.error = "HTTP " \o ToString(o.status_code)
       /\ o.raises = "ProxyError" =>
            r.status = "failed" /\ r.error = "Proxy connection failed"
       /\ o.raises \in {"ConnectTimeout", "ReadTimeout"} =>
            r.status = "failed" /\ r.error = "Timeout"
       /\ o.raises \in {"ConnectionError", "SSLError"} =>
            r.status = "failed" /\ r.error = "Connection error"
       /\ o.raises = "InvalidURL" =>
            r.status = "error" /\ r.error = ExcText("InvalidURL")

C6_Witness ==
  /\ Returned
  /\ cur.first.raises = "ProxyError"
  /\ cur.result.error = "Proxy connection failed"
  /\ Len(cur.calls) = 1

\* C7: after a first response of 200 the result is working and its anonymity
\* is transparent when X-Forwarded-For or X-Real-Ip is echoed, anonymous when
\* Via or X-Forwarded-By is echoed without those, elite when none of the four
\* is, and unknown when the second request or the reading of its body fails.
C7_Anonymity ==
  (Returned /\ First200(cur)) =>
    LET o == cur.second
        failure == o.raises # "none" \/ o.body \in {"notjson", "array", "null"}
        hs == IF o.body = "object" THEN o.headers ELSE {}
    IN /\ cur.result.status = "working"
       /\ cur.result.anonymity =
            IF failure THEN "unknown"
            ELSE IF hs \cap {"X-Forwarded-For", "X-Real-Ip"} # {} THEN "transparent"
            ELSE IF hs \cap {"Via", "X-Forwarded-By"} # {} THEN "anonymous"
            ELSE "elite"

C7_Witness ==
  /\ Returned
  /\ cur.second.headers = {"X-Real-Ip", "Via"}
  /\ cur.result.anonymity = "transparent"

\* C8: a call whose first response is 200 has issued exactly two requests,
\* the IP endpoint then the headers endpoint; a call whose first request
\* failed has issued exactly one; the headers endpoint is never requested
\* unless the first response was 200.
C8_RequestCount ==
  /\ \A k \in 1..Len(cur.calls) : cur.calls[k].url = HeadersUrl => First200(cur)
  /\ Returned =>
       /\ First200(cur) => /\ Len(cur.calls) = 2
                           /\ <<cur.calls[1].url, cur.calls[2].url>> = <<Url0, HeadersUrl>>
       /\ (FirstIssued(cur) /\ ~First200(cur)) =>
            Len(cur.calls) = 1 /\ cur.calls[1].url = Url0

C8_Witness ==
  /\ Returned
  /\ cur.first.status_code = 404
  /\ Len(cur.calls) = 1

\* C1: in the summary of every run, working + failed equals total_tested,
\* which is the number of input descriptors.
C1_CountsAddUp ==
  Built => /\ returned.total_tested = Len(proxies)
           /\ returned.working + returned.failed = returned.total_tested

C1_Witness ==
  /\ Built
  /\ Len(proxies) = 3
  /\ proxies[1] = proxies[2]
  /\ returned.working = 1
  /\ \E k \in 1..2 : returned.failed_proxies[k].status = "invalid"

\* every input descriptor has exactly one result in the summary, the one its
\* own probe returned, and every probe has completed
OneResultEach ==
  /\ Len(futs) = Len(proxies)
  /\ Finished = 1..Len(futs)
  /\ Len(collected) = Len(proxies)
  /\ \A i \in 1..Len(proxies) :
       /\ Cardinality({k \in 1..Len(collected) : collected[k] = i}) = 1
       /\ futs[i].probe.pc = "returned"
       /\ futs[i].probe.result.proxy = proxies[i]
  /\ returned.working_proxies = SelectSeq(ResultsIn(collected), IsWorking)
  /\ returned.failed_proxies = SelectSeq(ResultsIn(collected), IsNotWorking)

\* C4: every run that has been started reaches the point where its summary
\* is built, whatever the interleaving and the outcomes; when it is built
\* every dispatched probe has completed and the summary holds exactly one
\* result per input descriptor, the one that descriptor's probe returned.
C4_AllCompleteThenSummary ==
  /\ [](Built => OneResultEach)
  /\ (mainpc = "submit") ~> Built

C4_Witness ==
  /\ Built
  /\ Len(proxies) = 2
  /\ returned.working = 1
  /\ returned.failed_proxies[1].status = "error"
  /\ collected = <<2, 1>>

\* C5 as stated: working_proxies holds exactly the working results and
\* failed_proxies all the others, each in the order the probes completed.
C5_CompletionOrder ==
  Built => /\ returned.working_proxies = SelectSeq(ResultsIn(completionOrder), IsWorking)
           /\ returned.failed_proxies = SelectSeq(ResultsIn(completionOrder), IsNotWorking)

\* C5 amended: working_proxies holds exactly the working results and
\* failed_proxies all the others, each in the order the loop received them:
\* the probes that had completed before the loop started come first, in any
\* order, and the others follow in the order they completed.
C5_PartitionInYieldOrder ==
  Built =>
    /\ returned.working_proxies = SelectSeq(ResultsIn(collected), IsWorking)
    /\ returned.failed_proxies = SelectSeq(ResultsIn(collected), IsNotWorking)
    /\ \A k \in 1..Len(returned.working_proxies) : returned.working_proxies[k].status = "working"
    /\ \A k \in 1..Len(returned.failed_proxies) :
         returned.failed_proxies[k].status \in {"failed", "invalid", "error"}
    /\ \A j, k \in 1..Len(collected) :
         j < k =>
           /\ collected[k] \in snapshot => collected[j] \in snapshot
           /\ (collected[j] \notin snapshot /\ collected[k] \notin snapshot)
                => CompletionRank(collected[j]) < CompletionRank(collected[k])

C5_Witness ==
  /\ Built
  /\ Len(proxies) = 3
  /\ Cardinality(snapshot) = 2
  /\ Len(returned.failed_proxies) = 2
  /\ returned.failed_proxies # SelectSeq(ResultsIn(completionOrder), IsNotWorking)

\* the rate the summary must carry, in hundredths of a percent: the integer
\* nearest to 100 * 100 * w / n, the even one on a tie
NearestRate(w, n) ==
  CHOOSE r \in ((10000 * w) \div n)..((10000 * w) \div n + 1) :
    LET d == IF r * n >= 10000 * w THEN r * n - 10000 * w ELSE 10000 * w - r * n
    IN 2 * d < n \/ (2 * d = n /\ r % 2 = 0)

\* C9: success_rate is round(working / total_tested * 100, 2) for a
\* non-empty run and 0 for an empty one, whose counts are all 0; no run ends
\* with a division error.
C9_SuccessRate ==
  /\ raised # "ZeroDivisionError"
  /\ Built =>
       IF Len(proxies) = 0
       THEN /\ returned.success_rate = 0
            /\ returned.total_tested = 0
            /\ returned.working = 0
            /\ returned.failed = 0
       ELSE returned.success_rate = NearestRate(returned.working, returned.total_tested)

C9_Witness ==
  /\ Built
  /\ proxies = <<>>
  /\ returned.success_rate = 0

\* C10: self.results is the value set at construction until a run of
\* check_proxy_list completes and from then on the summary that the latest
\* completed run returned, with that run's entries only; no other step
\* changes it; a file is written only when it is not the initial value.
C10_ResultsReplaced ==
  /\ [](results = returned)
  /\ [](Built => results = BuildSummary(proxies, ResultsIn(SelectSeq(collected, LAMBDA f : IsWorking(futs[f].probe.result))),
                                        ResultsIn(SelectSeq(collected, LAMBDA f : IsNotWorking(futs[f].probe.result))),
                                        results.success_rate))
  /\ [](out.written => results # InitialResults)
  /\ [][(results' # results) => (mainpc = "collect" /\ mainpc' = "built")]_vars

C10_Witness ==
  /\ mainpc = "collect"
  /\ proxies = <<>>
  /\ results.kind = "dict"
  /\ results.total_tested = 1

====
